---- MODULE Spec2Model ----
(***************************************************************************)
(* Breach checker of password-utils (src/src/analyzer/breach.ts): the      *)
(* k-anonymity lookup of a password's SHA-1 digest against the HIBP range  *)
(* API, with an in-memory LRU of prefixes, an IndexedDB store of buckets,  *)
(* a rate limiter and a retry loop.  One action per turn of the event      *)
(* loop: the code between two awaits that yield to the host runs as one    *)
(* step.  Strings are sequences of one-character strings.                  *)
(***************************************************************************)
EXTENDS Integers, Sequences, FiniteSets, TLC

NULL == "null"

\* ------------------------------------------------------------ constants
HIBP_API_URL == <<"https://api.pwnedpasswords.com/range/">>
CACHE_TTL_MS == 24 * 60 * 60 * 1000
RATE_LIMIT_MS == 1000
MAX_RETRIES == 3
INITIAL_BACKOFF_MS == 1000
DEFAULT_TIMEOUT == 5000

\* Capacity of the checker's LRU, scaled down (1000 in the source) so that
\* eviction happens within the prefixes of the model.
MAX_CACHE_SIZE == 1

\* ------------------------------------------------------------ bounds
\* Call slots are 1..NCalls: the checks that may be in flight together.
NCalls == 2
\* Checks started in one run.
MaxChecks == 2
\* clearBreachCache() calls in one run.
MaxClears == 2
\* Capacity of the LRU, and the calls of access(), where the LRU is run
\* alone.
LRUSize == 2
MaxTouches == 4
\* check() calls of the hook in one run.
MaxHookChecks == 3

TickMs == RATE_LIMIT_MS \div 2
StartTime == 2 * CACHE_TTL_MS

Calls == 1..NCalls

\* ------------------------------------------------------------ strings
Passwords == {"password", "blic", "Xk9#mQ2!vL7"}

\* bytesToHex(sha1(password)): the true SHA-1 digests, lower-case hex.
Sha1Hex(password) ==
  CASE password = "password" ->
         <<"5","b","a","a","6","1","e","4","c","9","b","9","3","f","3","f","0","6","8","2","2","5","0","b","6","c","f","8","3","3","1","b","7","e","e","6","8","f","d","8">>
    [] password = "blic" ->
         <<"5","b","a","a","6","a","b","9","1","f","3","2","2","9","0","2","b","f","f","c","e","c","5","c","4","f","c","2","2","f","2","d","6","9","7","6","1","7","3","6">>
    [] password = "Xk9#mQ2!vL7" ->
         <<"9","7","9","e","f","f","9","f","5","b","f","6","a","6","3","7","4","5","e","9","3","c","e","b","c","6","e","d","e","d","4","f","d","0","9","7","c","2","3","6">>

UpperChar(ch) ==
  CASE ch = "a" -> "A" [] ch = "b" -> "B" [] ch = "c" -> "C"
    [] ch = "d" -> "D" [] ch = "e" -> "E" [] ch = "f" -> "F"
    [] OTHER -> ch

ToUpperCase(s) == [i \in 1..Len(s) |-> UpperChar(s[i])]

\* const hash = bytesToHex(sha1(password)).toUpperCase()
HashOf(password) == ToUpperCase(Sha1Hex(password))

\* Faulty variant of PrefixOf: the whole digest is taken as the prefix.
PrefixOfWholeHash(password) == HashOf(password)

\* hash.substring(0, 5)
PrefixOf(password) == SubSeq(HashOf(password), 1, 5)
\* hash.substring(5)
SuffixOf(password) == SubSeq(HashOf(password), 6, Len(HashOf(password)))

Prefixes == {PrefixOf(p) : p \in Passwords}

\* The body the range API serves for a prefix: SUFFIX:COUNT lines ended by
\* CR LF.  5BAA6 lists the suffix of "password" and a foreign one (not that
\* of "blic"); the body of 979EF holds no record, only a blank line.
RemoteBody(prefix) ==
  CASE prefix = <<"5","B","A","A","6">> ->
         <<"1","E","4","C","9","B","9","3","F","3","F","0","6","8","2","2","5","0","B","6","C","F","8","3","3","1","B","7","E","E","6","8","F","D","8",":","3","\r","\n","0","0","1","8","A","4","5","C","4","D","1","D","E","F","8","1","6","4","4","B","5","4","A","B","7","F","9","6","9","B","8","8","D","6","5",":","1">>
    [] prefix = <<"9","7","9","E","F">> ->
         <<" ","\r","\n">>
    [] OTHER -> <<>>

\* text.split(sep): the pieces of s between occurrences of the character sep.
RECURSIVE SplitFrom(_, _, _, _)
SplitFrom(s, sep, i, cur) ==
  IF i > Len(s) THEN <<cur>>
  ELSE IF s[i] = sep THEN <<cur>> \o SplitFrom(s, sep, i + 1, <<>>)
  ELSE SplitFrom(s, sep, i + 1, Append(cur, s[i]))

Split(s, sep) == SplitFrom(s, sep, 1, <<>>)

IsSpace(ch) == ch \in {" ", "\t", "\r", "\n"}

RECURSIVE TrimStart(_)
TrimStart(s) ==
  IF s # <<>> /\ IsSpace(Head(s)) THEN TrimStart(Tail(s)) ELSE s

RECURSIVE TrimEnd(_)
TrimEnd(s) ==
  IF s # <<>> /\ IsSpace(s[Len(s)]) THEN TrimEnd(SubSeq(s, 1, Len(s) - 1)) ELSE s

Trim(s) == TrimEnd(TrimStart(s))

\* const [hash] = line.split(':'); return hash?.trim() || ''
LineHash(line) == Trim(Split(line, ":")[1])

\* Faulty variant of ParseHashes: the empty strings are kept.
ParseHashesKeepsEmpty(text) ==
  LET lines == Split(text, "\n")
  IN [i \in 1..Len(lines) |-> LineHash(lines[i])]

\* text.split('\n').map(...).filter(Boolean)
ParseHashes(text) ==
  LET lines == Split(text, "\n")
      mapped == [i \in 1..Len(lines) |-> LineHash(lines[i])]
  IN SelectSeq(mapped, LAMBDA h : h # <<>>)

\* Faulty variant of Includes: any suffix is found in a bucket that is not
\* empty.
IncludesAny(hashes, suffix) == hashes # <<>>

\* hashes.includes(suffix)
Includes(hashes, suffix) == \E i \in 1..Len(hashes) : hashes[i] = suffix

\* ------------------------------------------------------------ LRUCache
\* An LRUCache object: the Map's key set (cache), head and tail, and the
\* prev and next fields of the nodes, each node named by its key.
EmptyMap == [k \in {} |-> NULL]

NewLRUCache(maxSize) ==
  [cache |-> {}, head |-> NULL, tail |-> NULL,
   prev |-> EmptyMap, next |-> EmptyMap, maxSize |-> maxSize]

SetField(f, k, v) == [x \in DOMAIN f \cup {k} |-> IF x = k THEN v ELSE f[x]]
DropNode(f, k) == [x \in DOMAIN f \ {k} |-> f[x]]

\* Faulty variant of MoveToFront: the head is unlinked and linked again like
\* any other node.
MoveToFrontAlways(l, node) ==
  LET p == l.prev[node]
      n == l.next[node]
      next1 == IF p # NULL THEN SetField(l.next, p, n) ELSE l.next
      prev1 == IF n # NULL THEN SetField(l.prev, n, p) ELSE l.prev
      tail1 == IF node = l.tail THEN p ELSE l.tail
      prev2 == SetField(prev1, node, NULL)
      next2 == SetField(next1, node, l.head)
      prev3 == IF l.head # NULL THEN SetField(prev2, l.head, node) ELSE prev2
  IN [l EXCEPT !.prev = prev3, !.next = next2, !.tail = tail1, !.head = node]

\* Faulty variant of MoveToFront: the tail is left as it was.
MoveToFrontStaleTail(l, node) ==
  IF node = l.head THEN l
  ELSE
    LET p == l.prev[node]
        n == l.next[node]
        next1 == IF p # NULL THEN SetField(l.next, p, n) ELSE l.next
        prev1 == IF n # NULL THEN SetField(l.prev, n, p) ELSE l.prev
        prev2 == SetField(prev1, node, NULL)
        next2 == SetField(next1, node, l.head)
        prev3 == IF l.head # NULL THEN SetField(prev2, l.head, node) ELSE prev2
    IN [l EXCEPT !.prev = prev3, !.next = next2, !.head = node]

\* moveToFront(node)
MoveToFront(l, node) ==
  IF node = l.head THEN l
  ELSE
    LET p == l.prev[node]
        n == l.next[node]
        next1 == IF p # NULL THEN SetField(l.next, p, n) ELSE l.next
        prev1 == IF n # NULL THEN SetField(l.prev, n, p) ELSE l.prev
        tail1 == IF node = l.tail THEN p ELSE l.tail
        prev2 == SetField(prev1, node, NULL)
        next2 == SetField(next1, node, l.head)
        prev3 == IF l.head # NULL THEN SetField(prev2, l.head, node) ELSE prev2
    IN [l EXCEPT !.prev = prev3, !.next = next2, !.tail = tail1, !.head = node]

\* Faulty variant of EvictLRU: the head, the key used last, is evicted.
EvictMRU(l) ==
  IF l.head = NULL THEN [lru |-> l, evicted |-> NULL]
  ELSE
    LET evicted == l.head
        head1 == l.next[evicted]
        prev1 == IF head1 # NULL THEN SetField(l.prev, head1, NULL) ELSE l.prev
        tail1 == IF head1 # NULL THEN l.tail ELSE NULL
    IN [lru |-> [l EXCEPT !.cache = l.cache \ {evicted},
                          !.head = head1, !.tail = tail1,
                          !.prev = DropNode(prev1, evicted),
                          !.next = DropNode(l.next, evicted)],
        evicted |-> evicted]

\* evictLRU(): the cache after the eviction and the key handed to removeFromDB
\* (NULL when there is no tail).
EvictLRU(l) ==
  IF l.tail = NULL THEN [lru |-> l, evicted |-> NULL]
  ELSE
    LET evicted == l.tail
        tail1 == l.prev[evicted]
        next1 == IF tail1 # NULL THEN SetField(l.next, tail1, NULL) ELSE l.next
        head1 == IF tail1 # NULL THEN l.head ELSE NULL
    IN [lru |-> [l EXCEPT !.cache = l.cache \ {evicted},
                          !.tail = tail1, !.head = head1,
                          !.next = DropNode(next1, evicted),
                          !.prev = DropNode(l.prev, evicted)],
        evicted |-> evicted]

\* Faulty variant of Access: a cache that has reached its capacity evicts.
AccessEager(l, key) ==
  IF key \notin l.cache THEN
    LET prev1 == IF l.head # NULL THEN SetField(l.prev, l.head, key) ELSE l.prev
        l1 == [l EXCEPT !.prev = SetField(prev1, key, NULL),
                        !.next = SetField(l.next, key, l.head),
                        !.head = key,
                        !.tail = IF l.tail = NULL THEN key ELSE l.tail,
                        !.cache = l.cache \cup {key}]
    IN IF Cardinality(l1.cache) >= l1.maxSize THEN EvictLRU(l1)
       ELSE [lru |-> l1, evicted |-> NULL]
  ELSE [lru |-> MoveToFront(l, key), evicted |-> NULL]

\* access(key)
Access(l, key) ==
  IF key \notin l.cache THEN
    LET prev1 == IF l.head # NULL THEN SetField(l.prev, l.head, key) ELSE l.prev
        l1 == [l EXCEPT !.prev = SetField(prev1, key, NULL),
                        !.next = SetField(l.next, key, l.head),
                        !.head = key,
                        !.tail = IF l.tail = NULL THEN key ELSE l.tail,
                        !.cache = l.cache \cup {key}]
    IN IF Cardinality(l1.cache) > l1.maxSize THEN EvictLRU(l1)
       ELSE [lru |-> l1, evicted |-> NULL]
  ELSE [lru |-> MoveToFront(l, key), evicted |-> NULL]

\* ------------------------------------------------------------ state
VARIABLES
  now,              \* Date.now()
  hasIndexedDB,     \* the host has an indexedDB that opens
  hasFetch,         \* typeof fetch !== 'undefined'
  dbReady,          \* BreachChecker.dbReady
  lastRequestTime,  \* BreachChecker.lastRequestTime
  lruCache,         \* BreachChecker.lruCache
  store,            \* the records of the IndexedDB object store, by prefix
  removals,         \* prefixes whose removeFromDB() has not run yet
  call,             \* the checkPassword() activation of each call slot
  clearing,         \* a clearCache() is waiting for openDB()
  lastRequest,      \* the latest fetch() issued: when, and how it was paced
  waiting,          \* the call slots asleep in rateLimit(), in order of entry
  started,          \* checkPassword() invocations so far
  cleared,          \* clearCache() invocations so far
  attempts,         \* how the attempts of the observed check ended, in order
  touched,          \* the keys lruCache.access() was given since lruCache was made
  clearsInRow,      \* clearCache() calls completed since the last check began
  removalLog,       \* the removeFromDB() calls that deleted nothing, and those
                    \* of them that console.error was called for
  hook              \* a mounted useBreachCheck(): its state, its ref and the
                    \* check() calls that await checkPasswordBreach()

vars == <<now, hasIndexedDB, hasFetch, dbReady, lastRequestTime, lruCache,
          store, removals, call, clearing, lastRequest, waiting, started, cleared,
          attempts, touched, clearsInRow, removalLog, hook>>

\* The options a caller passes: the defaults, or allowNetwork: false.
CheckOptions ==
  {[allowNetwork |-> TRUE, timeout |-> DEFAULT_TIMEOUT],
   [allowNetwork |-> FALSE, timeout |-> DEFAULT_TIMEOUT]}

\* A call slot.  The fields of the activation (pc, attempt, wake, deadline,
\* request, hashes, timestamp) and what is remembered of the call: its
\* number (id), what its lookup met (lookup, the record of its prefix that
\* the store held then as seen, the clock then as lookedAt), the fetches it
\* issued (requests), the record of its prefix in the store when it
\* returned (written) and what it returned (result).
IdleCall ==
  [pc |-> "idle", id |-> 0, password |-> NULL, allowNetwork |-> TRUE,
   timeout |-> DEFAULT_TIMEOUT, attempt |-> 0, wake |-> 0, deadline |-> 0,
   request |-> NULL, hashes |-> <<>>, timestamp |-> 0, requests |-> 0,
   lookup |-> NULL, seen |-> EmptyMap, lookedAt |-> 0, written |-> EmptyMap,
   result |-> NULL]

\* A CacheEntry {prefix, hashes, timestamp}
CacheEntry(prefix, hashes, timestamp) ==
  [prefix |-> prefix, hashes |-> hashes, timestamp |-> timestamp]

\* No fetch() was issued yet.
NoRequest == [time |-> 0, spacing |-> RATE_LIMIT_MS, overtaken |-> <<>>]

\* useBreachCheck() as mounted: useState(null), useState(false),
\* useState(null), useRef(false); no check() was called (started), none is
\* awaiting (pending), and no check has set the result (owner).  result and
\* error are sequences of no or one value.
HookMounted ==
  [result |-> <<>>, loading |-> FALSE, error |-> <<>>, cancelled |-> FALSE,
   started |-> 0, pending |-> {}, owner |-> 0]

\* No removeFromDB() has failed yet.
NoRemovalFailed == [failed |-> {}, reported |-> {}]

\* No attempt was made yet; the check observed is the one numbered id (none
\* when id is 0).
NoAttempts(id) == [of |-> id, outcomes |-> <<>>, delays |-> <<>>]

InitObserving(id) ==
  /\ now = StartTime
  /\ hasIndexedDB \in BOOLEAN
  /\ hasFetch \in BOOLEAN
  /\ dbReady = FALSE
  /\ lastRequestTime = 0
  /\ lruCache = NewLRUCache(MAX_CACHE_SIZE)
  /\ store = EmptyMap
  /\ removals = {}
  /\ call = [c \in Calls |-> IdleCall]
  /\ clearing = FALSE
  /\ lastRequest = NoRequest
  /\ waiting = <<>>
  /\ started = 0
  /\ cleared = 0
  /\ attempts = NoAttempts(id)
  /\ touched = <<>>
  /\ clearsInRow = 0
  /\ removalLog = NoRemovalFailed
  /\ hook = HookMounted

\* The singleton as the module makes it; no check is observed.
Init == InitObserving(0)

\* ------------------------------------------------------------ results
\* A value of the field breached: true, false or null.
JSBool(b) == IF b THEN "true" ELSE "false"

\* Faulty variants of Verdict: the hit reported as not cached; a count
\* given whatever the verdict.
VerdictUncached(breached, cached) ==
  IF breached
    THEN [checked |-> TRUE, breached |-> JSBool(TRUE), cached |-> FALSE,
          count |-> 1]
    ELSE [checked |-> TRUE, breached |-> JSBool(FALSE), cached |-> FALSE]

VerdictCounted(breached, cached) ==
  [checked |-> TRUE, breached |-> JSBool(breached), cached |-> cached,
   count |-> IF breached THEN 1 ELSE 0]

\* The BreachResult of a verdict from the cache (cached = TRUE) or from the
\* network (cached = FALSE): count is set only when breached.
Verdict(breached, cached) ==
  IF breached
    THEN [checked |-> TRUE, breached |-> JSBool(TRUE), cached |-> cached,
          count |-> 1]
    ELSE [checked |-> TRUE, breached |-> JSBool(FALSE), cached |-> cached]

\* Faulty variant of OfflineResult: the offline flag is left out.
OfflineResultUnflagged == [checked |-> FALSE, breached |-> NULL]

\* Faulty variant of ErrorResult: the unknown verdict reported as false.
ErrorResultNotBreached == [checked |-> FALSE, breached |-> JSBool(FALSE)]

\* The result of the network gate and of the inner catch.
OfflineResult == [checked |-> FALSE, breached |-> NULL, offline |-> TRUE]

\* The result of the outer catch.
ErrorResult == [checked |-> FALSE, breached |-> NULL]

\* ------------------------------------------------------------ durable store
\* Faulty variant of Expired: every record is taken for expired.
ExpiredAlways(entry, t) == TRUE

\* Faulty variant of Expired: an entry of age CACHE_TTL_MS is expired.
ExpiredAtTTL(entry, t) == t - entry.timestamp >= CACHE_TTL_MS

\* Date.now() - entry.timestamp > CACHE_TTL_MS
Expired(entry, t) == t - entry.timestamp > CACHE_TTL_MS

\* Faulty variant of Put: nothing is written.
PutNothing(s, entry) == s

\* Faulty variant of Put: a record of the prefix that exists is kept
\* (store.add, not store.put).
PutIfAbsent(s, entry) ==
  IF entry.prefix \in DOMAIN s THEN s ELSE SetField(s, entry.prefix, entry)

\* store.put(entry)
Put(s, entry) == SetField(s, entry.prefix, entry)

\* Faulty variant of Delete: nothing is deleted.
DeleteNothing(s, prefix) == s

\* store.delete(prefix)
Delete(s, prefix) == DropNode(s, prefix)

\* The record of prefix in s, if any: a map of no or one key.
Only(s, prefix) == [k \in DOMAIN s \cap {prefix} |-> s[k]]

\* ------------------------------------------------------------ network
\* fetch(`${HIBP_API_URL}${prefix}`, {signal, headers: {'User-Agent': ...}})
Request(prefix) ==
  [url |-> HIBP_API_URL \o prefix, userAgent |-> "password-kit"]

\* RATE_LIMIT_MS - timeSinceLastRequest
WaitTime(t, last) == RATE_LIMIT_MS - (t - last)

\* timeSinceLastRequest < RATE_LIMIT_MS
MustWait(t, last) == t - last < RATE_LIMIT_MS

\* Faulty variant of Backoff: the delay grows by INITIAL_BACKOFF_MS.
BackoffLinear(attempt) == INITIAL_BACKOFF_MS * (attempt + 1)

\* INITIAL_BACKOFF_MS * Math.pow(2, attempt)
Backoff(attempt) == INITIAL_BACKOFF_MS * (2 ^ attempt)

\* The time since the fetch before, as far as the interval of the pacer.
Spacing(t, before) ==
  IF t - before < RATE_LIMIT_MS THEN t - before ELSE RATE_LIMIT_MS

\* The statements of fetchFromHIBP from the fetch() call on, for the record r
\* of call c: the request leaves now and the abort timer is armed.  Those
\* that entered rateLimit() before c and still sleep there are overtaken.
IssueFetch(c, r) ==
  /\ lastRequest' =
       [time |-> now,
        spacing |-> IF lastRequest.time = 0 THEN RATE_LIMIT_MS
                    ELSE Spacing(now, lastRequest.time),
        overtaken |-> IF \E i \in 1..Len(waiting) : waiting[i] = c
                        THEN SubSeq(waiting, 1,
                               (CHOOSE i \in 1..Len(waiting) : waiting[i] = c) - 1)
                        ELSE waiting]
  /\ call' = [call EXCEPT ![c] =
       [r EXCEPT !.pc = "fetch", !.deadline = now + r.timeout,
                 !.request = Request(PrefixOf(r.password)),
                 !.requests = r.requests + 1]]

\* rateLimit() up to its await: either lastRequestTime is set at once and the
\* fetch follows in the same turn, or the caller sleeps for waitTime.
RateLimit(c, r) ==
  IF MustWait(now, lastRequestTime)
    THEN /\ call' = [call EXCEPT ![c] =
              [r EXCEPT !.pc = "rateLimit",
                        !.wake = now + WaitTime(now, lastRequestTime)]]
         /\ waiting' = Append(waiting, c)
         /\ UNCHANGED <<lastRequestTime, lastRequest>>
    ELSE /\ lastRequestTime' = now
         /\ IssueFetch(c, r)
         /\ UNCHANGED waiting

\* The return of checkPassword with result res, the store being s then: the
\* activation is gone, the slot keeps what the call was and what it returned.
Return(c, r, res, s) ==
  call' = [call EXCEPT ![c] =
    [IdleCall EXCEPT !.pc = "done", !.id = r.id, !.password = r.password,
                     !.allowNetwork = r.allowNetwork, !.lookup = r.lookup,
                     !.seen = r.seen, !.lookedAt = r.lookedAt,
                     !.requests = r.requests, !.hashes = r.hashes,
                     !.timestamp = r.timestamp,
                     !.written = Only(s, PrefixOf(r.password)),
                     !.result = res]]

\* ------------------------------------------------------------ checkPassword
\* Faulty variant of AccessKey: the key is not touched.
AccessNothing(key) == UNCHANGED <<lruCache, touched, removals>>

\* this.lruCache.access(key): the eviction, if any, leaves a removeFromDB()
\* pending.
AccessKey(key) ==
  LET a == Access(lruCache, key)
  IN /\ lruCache' = a.lru
     /\ touched' = Append(touched, key)
     /\ removals' = IF a.evicted = NULL THEN removals
                    ELSE removals \cup {a.evicted}

\* lruCache.access(prefix) and the call of getCacheEntry(prefix), which
\* awaits openDB(): the eviction, if any, leaves a removeFromDB() pending.
BeginLookup(c, r) ==
  /\ AccessKey(PrefixOf(r.password))
  /\ call' = [call EXCEPT ![c] = [r EXCEPT !.pc = "getCacheEntry"]]

\* The slot a new call takes: one never used if there is one, or else one
\* whose call has returned.
FreeSlots ==
  IF \E c \in Calls : call[c].pc = "idle"
    THEN {c \in Calls : call[c].pc = "idle"}
    ELSE {c \in Calls : call[c].pc = "done"}

\* checkPassword(password, {allowNetwork, timeout}) up to its first await
\* that yields: initDB() returns at once when dbReady.
Start(c, password, allowNetwork, timeout) ==
  /\ c \in FreeSlots
  /\ \A d \in FreeSlots : c <= d
  /\ started < MaxChecks
  /\ started' = started + 1
  /\ clearsInRow' = 0
  /\ LET r == [IdleCall EXCEPT !.id = started + 1, !.password = password,
                               !.allowNetwork = allowNetwork,
                               !.timeout = timeout]
     IN IF dbReady
          THEN BeginLookup(c, r)
          ELSE /\ call' = [call EXCEPT ![c] = [r EXCEPT !.pc = "initDB"]]
               /\ UNCHANGED <<lruCache, removals, touched>>
  /\ UNCHANGED <<now, hasIndexedDB, hasFetch, dbReady, lastRequestTime, store,
                 clearing, lastRequest, waiting, cleared>>
  /\ UNCHANGED <<attempts, removalLog, hook>>

\* initDB(): openDB() settled; dbReady is set when it opened.
InitDBDone(c) ==
  /\ call[c].pc = "initDB"
  /\ dbReady' = (dbReady \/ hasIndexedDB)
  /\ BeginLookup(c, call[c])
  /\ UNCHANGED <<now, hasIndexedDB, hasFetch, lastRequestTime, store,
                 clearing, lastRequest, waiting, started, cleared>>
  /\ UNCHANGED <<attempts, clearsInRow, removalLog, hook>>

\* Faulty variant of AfterMiss: a check that finds another check of the same
\* prefix on the network path does not go to the network itself.
AfterMissSingleFlight(c, r, s) ==
  IF \/ ~r.allowNetwork \/ ~hasFetch
     \/ \E d \in Calls \ {c} :
          /\ call[d].pc \in {"rateLimit", "fetch", "text", "backoff", "setCacheEntry"}
          /\ PrefixOf(call[d].password) = PrefixOf(r.password)
    THEN /\ Return(c, r, OfflineResult, s)
         /\ UNCHANGED <<lastRequestTime, lastRequest, waiting>>
    ELSE RateLimit(c, [r EXCEPT !.attempt = 0])

\* The network gate after a miss, the store being s then, and the entry
\* into fetchFromHIBP.
AfterMiss(c, r, s) ==
  IF ~r.allowNetwork \/ ~hasFetch
    THEN /\ Return(c, r, OfflineResult, s)
         /\ UNCHANGED <<lastRequestTime, lastRequest, waiting>>
    ELSE RateLimit(c, [r EXCEPT !.attempt = 0])

\* getCacheEntry(prefix) settled.  Without a database openDB() rejects inside
\* the try and null is returned.  A failing read rejects the promise that is
\* returned without await, so the rejection passes the catch of
\* getCacheEntry and reaches the outer catch of checkPassword.
GetCacheEntryDone(c, readOk) ==
  /\ call[c].pc = "getCacheEntry"
  /\ LET prefix == PrefixOf(call[c].password)
         suffix == SuffixOf(call[c].password)
         r == [call[c] EXCEPT !.seen = Only(store, prefix), !.lookedAt = now]
     IN IF ~hasIndexedDB THEN
          /\ readOk
          /\ store' = store
          /\ AfterMiss(c, [r EXCEPT !.lookup = "unavailable"], store)
        ELSE IF ~readOk THEN
          /\ store' = store
          /\ Return(c, [r EXCEPT !.lookup = "error"], ErrorResult, store)
          /\ UNCHANGED <<lastRequestTime, lastRequest, waiting>>
        ELSE IF prefix \notin DOMAIN store THEN
          /\ store' = store
          /\ AfterMiss(c, [r EXCEPT !.lookup = "miss"], store)
        ELSE IF Expired(store[prefix], now) THEN
          /\ store' = Delete(store, prefix)
          /\ AfterMiss(c, [r EXCEPT !.lookup = "expired"], Delete(store, prefix))
        ELSE
          /\ store' = store
          /\ Return(c, [r EXCEPT !.lookup = "hit"],
                    Verdict(Includes(store[prefix].hashes, suffix), TRUE), store)
          /\ UNCHANGED <<lastRequestTime, lastRequest, waiting>>
  /\ UNCHANGED <<now, hasIndexedDB, hasFetch, dbReady, lruCache, removals,
                 clearing, started, cleared>>
  /\ UNCHANGED <<attempts, touched, clearsInRow, removalLog, hook>>

\* rateLimit() after its sleep: lastRequestTime = Date.now(), then the fetch.
RateLimitWake(c) ==
  /\ call[c].pc = "rateLimit"
  /\ now >= call[c].wake
  /\ lastRequestTime' = now
  /\ IssueFetch(c, call[c])
  /\ waiting' = SelectSeq(waiting, LAMBDA d : d # c)
  /\ UNCHANGED <<now, hasIndexedDB, hasFetch, dbReady, lruCache, store,
                 removals, clearing, started, cleared>>
  /\ UNCHANGED <<attempts, touched, clearsInRow, removalLog, hook>>

Outcomes == {"ok", "429", "status", "network"}

\* The attempt of call c ended with outcome: that, and the backoff sleep
\* begun on it, if any, are noted when c is the check observed.
Observe(c, outcome) ==
  attempts' =
    IF call[c].id # attempts.of THEN attempts
    ELSE [attempts EXCEPT
            !.outcomes = Append(@, outcome),
            !.delays = IF call'[c].pc = "backoff"
                         THEN Append(@, call'[c].wake - now) ELSE @]

\* The sleep of a backoff begins: setTimeout(resolve, backoff).
Sleep(r) == [r EXCEPT !.pc = "backoff", !.wake = now + Backoff(r.attempt)]

\* The catch of fetchFromHIBP for an error that is no AbortError: a backoff
\* sleep unless this was the last attempt, and then the throw that the inner
\* catch of checkPassword turns into the offline result.
Failed(c, r) ==
  IF r.attempt < MAX_RETRIES - 1
    THEN call' = [call EXCEPT ![c] = Sleep(r)]
    ELSE Return(c, r, OfflineResult, store)

\* The fetch settled before the abort: a 2xx response, whose abort timer is
\* cleared and whose body is then awaited; a 429; another error status; or
\* a transport error.
FetchResponse(c, outcome) ==
  /\ call[c].pc = "fetch"
  /\ LET r == call[c]
     IN CASE outcome = "ok" ->
               /\ call' = [call EXCEPT ![c] =
                              [r EXCEPT !.pc = "text", !.deadline = 0]]
               /\ UNCHANGED attempts
          [] outcome = "429" ->
               /\ call' = [call EXCEPT ![c] = Sleep(r)]
               /\ Observe(c, outcome)
          [] OTHER ->
               /\ Failed(c, r)
               /\ Observe(c, outcome)
  /\ UNCHANGED <<now, hasIndexedDB, hasFetch, dbReady, lastRequestTime,
                 lruCache, store, removals, clearing, lastRequest, waiting,
                 started, cleared>>
  /\ UNCHANGED <<touched, clearsInRow, removalLog, hook>>

\* response.text() settled: the body is parsed and the entry is made, or the
\* read of the body failed, which is a transport error.
TextDone(c, bodyOk) ==
  /\ call[c].pc = "text"
  /\ LET r == call[c]
     IN IF bodyOk
          THEN /\ call' = [call EXCEPT ![c] =
                    [r EXCEPT !.pc = "setCacheEntry",
                              !.hashes = ParseHashes(RemoteBody(PrefixOf(r.password))),
                              !.timestamp = now]]
               /\ Observe(c, "ok")
          ELSE /\ Failed(c, r)
               /\ Observe(c, "network")
  /\ UNCHANGED <<now, hasIndexedDB, hasFetch, dbReady, lastRequestTime,
                 lruCache, store, removals, clearing, lastRequest, waiting,
                 started, cleared>>
  /\ UNCHANGED <<touched, clearsInRow, removalLog, hook>>

\* Faulty variant of FetchAbort: the AbortError is handled as other errors.
FetchAbortRetried(c) ==
  /\ call[c].pc = "fetch"
  /\ now >= call[c].deadline
  /\ Failed(c, call[c])
  /\ Observe(c, "abort")
  /\ UNCHANGED <<now, hasIndexedDB, hasFetch, dbReady, lastRequestTime,
                 lruCache, store, removals, clearing, lastRequest, waiting,
                 started, cleared>>
  /\ UNCHANGED <<touched, clearsInRow, removalLog, hook>>

\* The abort timer fired: AbortError, no retry.
FetchAbort(c) ==
  /\ call[c].pc = "fetch"
  /\ now >= call[c].deadline
  /\ Return(c, call[c], OfflineResult, store)
  /\ Observe(c, "abort")
  /\ UNCHANGED <<now, hasIndexedDB, hasFetch, dbReady, lastRequestTime,
                 lruCache, store, removals, clearing, lastRequest, waiting,
                 started, cleared>>
  /\ UNCHANGED <<touched, clearsInRow, removalLog, hook>>

\* Faulty variant of MoreAttempts: one turn more.
MoreAttemptsOneMore(attempt) == attempt <= MAX_RETRIES

\* attempt < MAX_RETRIES, the condition of the retry loop
MoreAttempts(attempt) == attempt < MAX_RETRIES

\* The backoff sleep ended: the next turn of the retry loop, or its end.
BackoffWake(c) ==
  /\ call[c].pc = "backoff"
  /\ now >= call[c].wake
  /\ LET r == [call[c] EXCEPT !.attempt = call[c].attempt + 1]
     IN IF MoreAttempts(r.attempt)
          THEN RateLimit(c, r)
          ELSE /\ Return(c, r, OfflineResult, store)
               /\ UNCHANGED <<lastRequestTime, lastRequest, waiting>>
  /\ UNCHANGED <<now, hasIndexedDB, hasFetch, dbReady, lruCache, store,
                 removals, clearing, started, cleared>>
  /\ UNCHANGED <<attempts, touched, clearsInRow, removalLog, hook>>

\* Faulty variant of SetCacheEntry: the record is written whether or not
\* the database opens.
SetCacheEntryAnyway(s, entry) == Put(s, entry)

\* setCacheEntry(entry): store.put(entry) when the database opens, nothing
\* when it does not.
SetCacheEntry(s, entry) == IF hasIndexedDB THEN Put(s, entry) ELSE s

\* setCacheEntry(entry) settled, then the verdict from the fetched hashes.
SetCacheEntryDone(c) ==
  /\ call[c].pc = "setCacheEntry"
  /\ LET r == call[c]
         entry == CacheEntry(PrefixOf(r.password), r.hashes, r.timestamp)
     IN /\ store' = SetCacheEntry(store, entry)
        /\ Return(c, r, Verdict(Includes(r.hashes, SuffixOf(r.password)), FALSE),
                  SetCacheEntry(store, entry))
  /\ UNCHANGED <<now, hasIndexedDB, hasFetch, dbReady, lastRequestTime,
                 lruCache, removals, clearing, lastRequest, waiting, started,
                 cleared>>
  /\ UNCHANGED <<attempts, touched, clearsInRow, removalLog, hook>>

\* ------------------------------------------------------------ other tasks
\* How removeFromDB() can end: the record is deleted; openDB() rejects or
\* db.transaction() throws, which the catch of removeFromDB logs; or the
\* delete request, once issued, fails: `await store.delete(prefix)` awaits
\* the IDBRequest object, not its outcome, and the request has no onerror.
RemovalOutcomes == {"deleted", "thrown", "failed"}

\* How removeFromDB() ends where nothing goes wrong that the host does not
\* impose: the delete where there is a database, the rejection of openDB()
\* where there is none.
Removal == IF hasIndexedDB THEN "deleted" ELSE "thrown"

\* removeFromDB(prefix) of an evicted key runs and ends with outcome.
RemoveFromDB(prefix, outcome) ==
  /\ prefix \in removals
  /\ outcome \in RemovalOutcomes
  /\ ~hasIndexedDB => outcome = "thrown"
  /\ removals' = removals \ {prefix}
  /\ store' = IF outcome = "deleted" THEN Delete(store, prefix) ELSE store
  /\ removalLog' =
       [failed |-> IF outcome = "deleted" THEN removalLog.failed
                   ELSE removalLog.failed \cup {prefix},
        reported |-> IF outcome = "thrown" THEN removalLog.reported \cup {prefix}
                     ELSE removalLog.reported]
  /\ UNCHANGED <<now, hasIndexedDB, hasFetch, dbReady, lastRequestTime,
                 lruCache, call, clearing, lastRequest, waiting, started, cleared>>
  /\ UNCHANGED <<attempts, touched, clearsInRow, hook>>

\* clearCache() up to its await of openDB().
ClearCacheStart ==
  /\ ~clearing
  /\ cleared < MaxClears
  /\ clearing' = TRUE
  /\ cleared' = cleared + 1
  /\ UNCHANGED <<now, hasIndexedDB, hasFetch, dbReady, lastRequestTime,
                 lruCache, store, removals, call, lastRequest, waiting, started>>
  /\ UNCHANGED <<attempts, touched, clearsInRow, removalLog, hook>>

\* clearCache() after openDB(): store.clear() and a new LRUCache, or the
\* catch when the database did not open.
ClearCacheDone ==
  /\ clearing
  /\ clearing' = FALSE
  /\ clearsInRow' = clearsInRow + 1
  /\ IF hasIndexedDB
       THEN /\ store' = EmptyMap
            /\ lruCache' = NewLRUCache(MAX_CACHE_SIZE)
            /\ touched' = <<>>
       ELSE UNCHANGED <<store, lruCache, touched>>
  /\ UNCHANGED <<now, hasIndexedDB, hasFetch, dbReady, lastRequestTime,
                 removals, call, lastRequest, waiting, started, cleared>>
  /\ UNCHANGED <<attempts, removalLog, hook>>

\* A database request of the program is outstanding, or the body of a
\* response is being read: these settle within one reading of the clock, if
\* they settle.
DatabaseBusy ==
  \/ \E c \in Calls :
       call[c].pc \in {"initDB", "getCacheEntry", "setCacheEntry", "text"}
  \/ clearing
  \/ removals # {}

\* The timers that are armed: the sleeps of rateLimit() and of the backoff,
\* and the abort timer of a fetch in flight.
Timers ==
  {call[c].wake : c \in {d \in Calls : call[d].pc \in {"rateLimit", "backoff"}}}
  \cup {call[c].deadline : c \in {d \in Calls : call[d].pc = "fetch"}}

\* The advances of the clock that make a difference.  With a timer armed:
\* up to the timers.
TimerSteps == {t - now : t \in Timers}

\* With none armed and a check still to come: by TickMs while the interval
\* of the rate limiter runs, or to the last moment a stored entry is served
\* and to the moment after.
IdleSteps ==
  IF Timers # {} \/ started >= MaxChecks THEN {}
  ELSE (IF MustWait(now, lastRequestTime) THEN {TickMs} ELSE {})
       \cup {store[k].timestamp + CACHE_TTL_MS - now : k \in DOMAIN store}
       \cup {store[k].timestamp + CACHE_TTL_MS + 1 - now : k \in DOMAIN store}

\* Time passes; the clock does not pass a timer that has not fired.
Tick(d) ==
  /\ ~DatabaseBusy
  /\ d > 0
  /\ \A t \in Timers : now + d <= t
  /\ now' = now + d
  /\ UNCHANGED <<hasIndexedDB, hasFetch, dbReady, lastRequestTime, lruCache,
                 store, removals, call, clearing, lastRequest, waiting, started,
                 cleared>>
  /\ UNCHANGED <<attempts, touched, clearsInRow, removalLog, hook>>

\* No call of the public API is in progress.
NoneInFlight ==
  /\ \A c \in Calls : call[c].pc \in {"idle", "done"}
  /\ ~clearing

\* A caller that awaits every call of the API before it makes the next one
\* (as the manual testing script does); evictions may still be pending.
Next ==
  \/ \E c \in Calls, p \in Passwords, o \in CheckOptions :
       NoneInFlight /\ Start(c, p, o.allowNetwork, o.timeout)
  \/ \E c \in Calls : InitDBDone(c)
  \/ \E c \in Calls, ok \in BOOLEAN : GetCacheEntryDone(c, ok)
  \/ \E c \in Calls : RateLimitWake(c)
  \/ \E c \in Calls, o \in Outcomes : FetchResponse(c, o)
  \/ \E c \in Calls, ok \in BOOLEAN : TextDone(c, ok)
  \/ \E c \in Calls : FetchAbort(c)
  \/ \E c \in Calls : BackoffWake(c)
  \/ \E c \in Calls : SetCacheEntryDone(c)
  \/ \E k \in Prefixes : RemoveFromDB(k, Removal)
  \/ NoneInFlight /\ ClearCacheStart
  \/ ClearCacheDone
  \/ \E d \in TimerSteps \cup IdleSteps : Tick(d)

Spec == Init /\ [][Next]_vars

\* Checks that overlap in a browser, all made within the first reading of
\* the clock (Promise.all over passwords of two prefixes): network allowed,
\* default timeout, store reads succeed, the service answers or throttles
\* before the timeout, and the cache is cleared, once if at all, while a
\* fetch is in flight.
InitConcurrent ==
  /\ Init
  /\ hasFetch
  /\ hasIndexedDB

FetchInFlight == \E c \in Calls : call[c].pc \in {"fetch", "text"}

NextConcurrent ==
  \/ \E c \in Calls, p \in {"password", "Xk9#mQ2!vL7"} :
       now = StartTime /\ Start(c, p, TRUE, DEFAULT_TIMEOUT)
  \/ \E c \in Calls : InitDBDone(c)
  \/ \E c \in Calls : GetCacheEntryDone(c, TRUE)
  \/ \E c \in Calls : RateLimitWake(c)
  \/ \E c \in Calls, o \in {"ok", "429"} : FetchResponse(c, o)
  \/ \E c \in Calls : TextDone(c, TRUE)
  \/ \E c \in Calls : BackoffWake(c)
  \/ \E c \in Calls : SetCacheEntryDone(c)
  \/ \E k \in Prefixes : RemoveFromDB(k, Removal)
  \/ FetchInFlight /\ cleared = 0 /\ ClearCacheStart
  \/ ClearCacheDone
  \/ \E d \in TimerSteps : Tick(d)

SpecConcurrent == InitConcurrent /\ [][NextConcurrent]_vars

\* One check in a process that made none before, its attempts observed; the
\* pacer has nothing to wait for and nothing is evicted.
InitOneCheck == InitObserving(1)

NextOneCheck ==
  \/ \E c \in Calls, p \in Passwords, o \in CheckOptions :
       started = 0 /\ Start(c, p, o.allowNetwork, o.timeout)
  \/ \E c \in Calls : InitDBDone(c)
  \/ \E c \in Calls, ok \in BOOLEAN : GetCacheEntryDone(c, ok)
  \/ \E c \in Calls, o \in Outcomes : FetchResponse(c, o)
  \/ \E c \in Calls, ok \in BOOLEAN : TextDone(c, ok)
  \/ \E c \in Calls : FetchAbort(c)
  \/ \E c \in Calls : BackoffWake(c)
  \/ \E c \in Calls : SetCacheEntryDone(c)
  \/ \E d \in TimerSteps : Tick(d)

SpecOneCheck == InitOneCheck /\ [][NextOneCheck]_vars

\* What the host guarantees of that check: database requests settle, timers
\* fire and the clock runs; the remote service guarantees nothing.
HostIsFair ==
  \A c \in Calls :
    /\ WF_vars(InitDBDone(c))
    /\ WF_vars(\E ok \in BOOLEAN : GetCacheEntryDone(c, ok))
    /\ WF_vars(FetchAbort(c))
    /\ WF_vars(BackoffWake(c))
    /\ WF_vars(SetCacheEntryDone(c))
    /\ WF_vars(\E d \in TimerSteps : Tick(d))

SpecOneCheckFair == InitOneCheck /\ [][NextOneCheck]_vars /\ HostIsFair

\* ------------------------------------------------------------ the LRU alone
\* The prefixes of the model and those of "123456" and "qwerty".
LRUKeys == Prefixes \cup {<<"7", "C", "4", "A", "8">>, <<"B", "1", "B", "3", "7">>}

\* The record of prefix k that an earlier session left in the store.
LeftOver(k) == CacheEntry(k, <<>>, StartTime)

\* A process that has made no check yet, with an LRU of at most LRUSize
\* keys; where there is a store, an earlier session left a record of every
\* key in it.
InitLRU ==
  /\ now = StartTime
  /\ hasIndexedDB \in BOOLEAN
  /\ hasFetch = TRUE
  /\ dbReady = FALSE
  /\ lastRequestTime = 0
  /\ lruCache \in {NewLRUCache(n) : n \in 0..LRUSize}
  /\ store = IF hasIndexedDB THEN [k \in LRUKeys |-> LeftOver(k)] ELSE EmptyMap
  /\ removals = {}
  /\ call = [c \in Calls |-> IdleCall]
  /\ clearing = FALSE
  /\ lastRequest = NoRequest
  /\ waiting = <<>>
  /\ started = 0
  /\ cleared = 0
  /\ attempts = NoAttempts(0)
  /\ touched = <<>>
  /\ clearsInRow = 0
  /\ removalLog = NoRemovalFailed
  /\ hook = HookMounted

\* The access of checkPassword to the LRU, for key; the rest of the check is
\* left out.
Touch(key) ==
  /\ Len(touched) < MaxTouches
  /\ AccessKey(key)
  /\ UNCHANGED <<now, hasIndexedDB, hasFetch, dbReady, lastRequestTime, store,
                 call, clearing, lastRequest, waiting, started, cleared,
                 attempts, clearsInRow, removalLog, hook>>

NextLRU ==
  \/ \E k \in LRUKeys : Touch(k)
  \/ \E k \in LRUKeys : RemoveFromDB(k, Removal)

SpecLRU == InitLRU /\ [][NextLRU]_vars

\* ------------------------------------------------------------ useBreachCheck
\* What checkPasswordBreach(password) may resolve with: the verdict of the
\* bucket, cached or not, the offline result or the result of the outer
\* catch.  It never rejects.
HookResults(password) ==
  {Verdict(Includes(ParseHashes(RemoteBody(PrefixOf(password))), SuffixOf(password)), k) :
     k \in BOOLEAN}
    \cup {OfflineResult, ErrorResult}

AllHookResults == UNION {HookResults(pw) : pw \in Passwords}

\* The check() calls there may be: the n-th call, with its password.
HookChecks ==
  {[id |-> i, password |-> pw] : i \in 1..MaxHookChecks, pw \in Passwords}

\* The frame of the hook's steps: the checker is modelled by what it
\* resolves with.
CheckerUnchanged ==
  UNCHANGED <<now, hasIndexedDB, hasFetch, dbReady, lastRequestTime, lruCache,
              store, removals, call, clearing, lastRequest, waiting, started,
              cleared, attempts, touched, clearsInRow, removalLog>>

\* check(password) with a password that is not empty, up to its await.
HookCheck(password) ==
  /\ hook.started < MaxHookChecks
  /\ hook' = [hook EXCEPT !.cancelled = FALSE, !.loading = TRUE,
                          !.error = <<>>,
                          !.started = hook.started + 1,
                          !.pending = hook.pending \cup
                            {[id |-> hook.started + 1, password |-> password]}]
  /\ CheckerUnchanged

\* check(''): the empty result is set and returned at once.
HookCheckEmpty ==
  /\ hook.started < MaxHookChecks
  /\ hook' = [hook EXCEPT !.result = <<[checked |-> FALSE, breached |-> NULL]>>,
                          !.started = hook.started + 1,
                          !.owner = hook.started + 1]
  /\ CheckerUnchanged

\* The checkPasswordBreach() that check x awaits resolves with res: the
\* state is set unless the ref says cancelled.
HookSettle(x, res) ==
  /\ x \in hook.pending
  /\ res \in HookResults(x.password)
  /\ hook' = IF ~hook.cancelled
               THEN [hook EXCEPT !.result = <<res>>, !.loading = FALSE,
                                 !.owner = x.id,
                                 !.pending = hook.pending \ {x}]
               ELSE [hook EXCEPT !.pending = hook.pending \ {x}]
  /\ CheckerUnchanged

\* clear()
HookClear ==
  /\ hook' = [hook EXCEPT !.cancelled = TRUE, !.result = <<>>, !.error = <<>>,
                          !.loading = FALSE, !.owner = 0]
  /\ CheckerUnchanged

\* A component that calls check() on every change of its password field, as
\* in the example of the hook, and clear().
InitHook ==
  /\ Init
  /\ hasFetch
  /\ hasIndexedDB

NextHook ==
  \/ \E pw \in Passwords : HookCheck(pw)
  \/ HookCheckEmpty
  \/ \E x \in HookChecks, res \in AllHookResults : HookSettle(x, res)
  \/ HookClear

SpecHook == InitHook /\ [][NextHook]_vars

\* Awaited checks, with the network allowed, of a service that answers, in a
\* host where the removal of an evicted record can go wrong in every way.
InitStoreFaults ==
  /\ Init
  /\ hasFetch

NextStoreFaults ==
  \/ \E c \in Calls, p \in Passwords :
       NoneInFlight /\ Start(c, p, TRUE, DEFAULT_TIMEOUT)
  \/ \E c \in Calls : InitDBDone(c)
  \/ \E c \in Calls : GetCacheEntryDone(c, TRUE)
  \/ \E c \in Calls : RateLimitWake(c)
  \/ \E c \in Calls : FetchResponse(c, "ok")
  \/ \E c \in Calls : TextDone(c, TRUE)
  \/ \E c \in Calls : SetCacheEntryDone(c)
  \/ \E k \in Prefixes, o \in RemovalOutcomes : RemoveFromDB(k, o)
  \/ \E d \in TimerSteps : Tick(d)

SpecStoreFaults == InitStoreFaults /\ [][NextStoreFaults]_vars

\* ------------------------------------------------------------ properties
\* The digest of a password as the protocol defines it, and its two parts.
Digest(p) == ToUpperCase(Sha1Hex(p))
DigestPrefix(p) == SubSeq(Digest(p), 1, 5)
DigestSuffix(p) == SubSeq(Digest(p), 6, 40)

\* suffix is one of the suffixes of a bucket.
InBucket(suffix, bucket) == \E i \in 1..Len(bucket) : bucket[i] = suffix

Returned(c) == call[c].pc = "done"

\* The lookup of call c met a record of its prefix that had not expired.
SawFresh(c) ==
  LET k == DigestPrefix(call[c].password)
  IN /\ k \in DOMAIN call[c].seen
     /\ call[c].lookedAt - call[c].seen[k].timestamp <= CACHE_TTL_MS

\* Call c went through a fetch that succeeded (with bucket call[c].hashes,
\* at call[c].timestamp).
Fetched(c) == call[c].timestamp # 0

\* The record a successful fetch of call c is to leave in the store.
EntryOf(c) ==
  LET k == DigestPrefix(call[c].password)
  IN (k :> [prefix |-> k, hashes |-> call[c].hashes,
            timestamp |-> call[c].timestamp])

Unknown == [checked |-> FALSE, breached |-> NULL, offline |-> TRUE]

\* C1: a check made with allowNetwork = false, or in a host without fetch,
\* whose store holds no unexpired entry of the prefix returns
\* {checked: false, breached: null, offline: true} and issues no request.
C1_OfflineOnColdCache ==
  \A c \in Calls :
    Returned(c) /\ (~call[c].allowNetwork \/ ~hasFetch) /\ ~SawFresh(c)
      => /\ call[c].result = Unknown
         /\ call[c].requests = 0

\* C2: a check that went to the network and got no verdict, whatever made
\* the fetch fail, returns {checked: false, breached: null, offline: true}.
C2_NetworkFailureIsOffline ==
  \A c \in Calls :
    Returned(c) /\ call[c].requests > 0 /\ ~Fetched(c)
      => call[c].result = Unknown

\* C2 happens: a check returned after MAX_RETRIES failed fetches.
C2_Witness ==
  \E c \in Calls :
    Returned(c) /\ call[c].requests = MAX_RETRIES /\ ~Fetched(c)

\* The verdict of call c is from the cache and is that of bucket.
CachedVerdict(c, bucket) ==
  LET res == call[c].result
  IN /\ res.checked
     /\ res.breached = JSBool(InBucket(DigestSuffix(call[c].password), bucket))
     /\ "cached" \in DOMAIN res
     /\ res.cached
     /\ call[c].requests = 0

NetworkVerdict(c) ==
  LET res == call[c].result
  IN /\ res.checked
     /\ res.breached =
          JSBool(InBucket(DigestSuffix(call[c].password), call[c].hashes))
     /\ "cached" \in DOMAIN res
     /\ ~res.cached
     /\ call[c].allowNetwork
     /\ call[c].lookup \in {"miss", "expired", "unavailable"}

\* C4 (as amended): a check whose fetch succeeds with bucket B returns
\* {checked: true, breached: suffix in B, cached: false}; when the store is
\* available the entry {prefix, B, time of the response} is in it when the
\* check returns, and when it is not nothing is written.
C4_FetchedVerdictIsStored ==
  \A c \in Calls :
    Returned(c) /\ Fetched(c)
      => /\ NetworkVerdict(c)
         /\ call[c].written = IF hasIndexedDB THEN EntryOf(c) ELSE EmptyMap

\* C4 (as written): the entry is in the store when the check returns.
C4_Original ==
  \A c \in Calls :
    Returned(c) /\ Fetched(c)
      => /\ NetworkVerdict(c)
         /\ call[c].written = EntryOf(c)

\* C4 happens: the check of a password that is in no bucket fetched the
\* bucket of its prefix and stored it.
C4_Witness ==
  \E c \in Calls :
    /\ Returned(c) /\ Fetched(c) /\ hasIndexedDB
    /\ call[c].password = "Xk9#mQ2!vL7"
    /\ call[c].result.breached = JSBool(FALSE)
    /\ call[c].written = EntryOf(c)

\* Call c is a check of the password of call d made after d returned from a
\* successful fetch, within CACHE_TTL_MS of it (calls are numbered in the
\* order in which they are made, and each is awaited).
LaterCheck(c, d) ==
  /\ Returned(c) /\ Returned(d) /\ Fetched(d)
  /\ call[c].id > call[d].id
  /\ call[c].password = call[d].password
  /\ call[c].lookedAt - call[d].timestamp <= CACHE_TTL_MS

C6_BreachedIffChecked ==
  \A c \in Calls :
    Returned(c)
      => LET res == call[c].result
         IN /\ res.checked \in BOOLEAN
            /\ res.breached \in {JSBool(TRUE), JSBool(FALSE), NULL}
            /\ res.checked <=> res.breached \in {JSBool(TRUE), JSBool(FALSE)}
            /\ ~res.checked <=> res.breached = NULL

\* C6 happens: one check returned without a verdict and another returned
\* the verdict false.
C6_Witness ==
  \E c, d \in Calls :
    /\ Returned(c) /\ ~call[c].result.checked
    /\ Returned(d) /\ call[d].result.breached = JSBool(FALSE)

C9_RequestsAreSpaced == lastRequest.spacing >= RATE_LIMIT_MS

\* C10: no fetch is issued while a caller that entered rateLimit() earlier
\* is still waiting there.
C10_FirstComeFirstServed == lastRequest.overtaken = <<>>

\* ------------------------------------------------------------ retries
\* Call c is the check whose attempts are observed.
Observed(c) == call[c].id = attempts.of /\ call[c].pc # "idle"

\* Every request of the observed check so far was answered, and each answer
\* was one of kinds.
AllAnswered(c, kinds) ==
  /\ call[c].requests > 0
  /\ Len(attempts.outcomes) = call[c].requests
  /\ \A i \in 1..Len(attempts.outcomes) : attempts.outcomes[i] \in kinds

RECURSIVE SumOf(_)
SumOf(seq) == IF seq = <<>> THEN 0 ELSE Head(seq) + SumOf(Tail(seq))

\* C11: a check issues at most MAX_RETRIES requests, and one all of whose
\* requests were answered 429 returns {checked: false, breached: null,
\* offline: true} after exactly MAX_RETRIES of them.
C11_ThrottledCheckGivesUp ==
  \A c \in Calls :
    Observed(c)
      => /\ call[c].requests <= MAX_RETRIES
         /\ Returned(c) /\ AllAnswered(c, {"429"})
              => /\ call[c].requests = 3
                 /\ call[c].result = [checked |-> FALSE, breached |-> NULL,
                                       offline |-> TRUE]

\* C11 happens: a check returned after three requests, all answered 429.
C11_Witness ==
  \E c \in Calls :
    /\ Observed(c) /\ Returned(c)
    /\ attempts.outcomes = <<"429", "429", "429">>

\* C12: the backoff sleep begun after the n-th attempt (n = 0, 1, 2) of a
\* check, that attempt having been answered 429, is INITIAL_BACKOFF_MS * 2^n,
\* twice the one before; a check all of whose attempts were answered 429
\* slept 1 s, 2 s and 4 s and returns no sooner than their sum after it
\* went to the network.
C12_BackoffDoubles ==
  \A c \in Calls :
    Observed(c)
      => /\ \A n \in 1..Len(attempts.delays) :
              attempts.outcomes[n] = "429"
                => /\ attempts.delays[n] = 1000 * (2 ^ (n - 1))
                   /\ n > 1 => attempts.delays[n] = 2 * attempts.delays[n - 1]
         /\ Returned(c) /\ AllAnswered(c, {"429"})
              => /\ attempts.delays = <<1000, 2000, 4000>>
                 /\ now - call[c].lookedAt >= SumOf(attempts.delays)

\* C12 happens: a check whose attempts were all answered 429 has returned,
\* 7 s after it went to the network.
C12_Witness ==
  \E c \in Calls :
    /\ Observed(c) /\ Returned(c) /\ AllAnswered(c, {"429"})
    /\ now - call[c].lookedAt = 7000

\* C13: an attempt that ends with the abort of the timeout is the last of
\* its check: the check has returned {checked: false, breached: null,
\* offline: true}, with no request and no backoff sleep after the abort.
C13_AbortIsFinal ==
  \A c \in Calls :
    Observed(c)
      => \A i \in 1..Len(attempts.outcomes) :
           attempts.outcomes[i] = "abort"
             => /\ i = Len(attempts.outcomes)
                /\ Returned(c)
                /\ call[c].result = [checked |-> FALSE, breached |-> NULL,
                                      offline |-> TRUE]
                /\ call[c].requests = i
                /\ Len(attempts.delays) = i - 1

\* C13 happens: the second attempt of a check, made after a 429, was
\* aborted by the timeout.
C13_Witness ==
  \E c \in Calls :
    Observed(c) /\ attempts.outcomes = <<"429", "abort">>

\* C15: an attempt answered with an error status other than 429 is the last
\* of its check: no backoff sleep and no request follows it.
C15_ErrorStatusIsFinal ==
  \A c \in Calls :
    Observed(c)
      => \A i \in 1..Len(attempts.outcomes) :
           attempts.outcomes[i] = "status"
             => /\ call[c].requests = i
                /\ Len(attempts.delays) < i
                /\ Returned(c)

\* C16: a check all of whose attempts failed with a transport error or an
\* error status made 3 retries after the first attempt, with backoff sleeps
\* of 1 s, 2 s and 4 s between the attempts.
C16_ThreeRetriesOnFailure ==
  \A c \in Calls :
    Observed(c) /\ Returned(c) /\ AllAnswered(c, {"network", "status"})
      => /\ call[c].requests = 1 + 3
         /\ attempts.delays = <<1000, 2000, 4000>>

\* C14: every check that was begun returns.
C14_EveryCheckReturns ==
  \A c \in Calls : call[c].pc # "idle" ~> call[c].pc = "done"

\* ------------------------------------------------------------ expiry
\* The lookup of call c reads, in this step, a record of its prefix.
ReadsEntry(c) ==
  /\ call[c].pc = "getCacheEntry"
  /\ call'[c].pc # "getCacheEntry"
  /\ call'[c].lookup # "error"
  /\ DigestPrefix(call[c].password) \in DOMAIN store

\* C17: a lookup that reads an entry older than 24 hours reports it absent
\* (the check goes on as after a miss, and no cached result comes of it) and
\* deletes it from the store; one that reads an entry of 24 hours or less
\* returns the cached verdict of it and leaves it in the store as it was.
C17_StaleEntryIsPurged ==
  [][\A c \in Calls :
       ReadsEntry(c)
         => LET k == DigestPrefix(call[c].password)
            IN IF now - store[k].timestamp > 24 * 60 * 60 * 1000
                 THEN /\ k \notin DOMAIN store'
                      /\ call'[c].lookup = "expired"
                      /\ call'[c].pc = "done"
                           => /\ call'[c].result = Unknown
                              /\ ~call'[c].allowNetwork \/ ~hasFetch
                      /\ \A j \in DOMAIN store \ {k} :
                           j \in DOMAIN store' /\ store'[j] = store[j]
                 ELSE /\ store' = store
                      /\ call'[c].lookup = "hit"
                      /\ call'[c].pc = "done"
                      /\ call'[c].result.checked
                      /\ call'[c].result.cached
                      /\ call'[c].result.breached =
                           JSBool(InBucket(DigestSuffix(call[c].password),
                                           store[k].hashes))]_vars

\* C17 happens: a check made offline found the entry of its prefix a
\* millisecond too old, and the entry is gone.
C17_Witness ==
  \E c \in Calls :
    /\ Returned(c) /\ call[c].lookup = "expired"
    /\ LET k == DigestPrefix(call[c].password)
       IN /\ call[c].lookedAt - call[c].seen[k].timestamp = CACHE_TTL_MS + 1
          /\ k \notin DOMAIN store
    /\ call[c].result = Unknown

\* ------------------------------------------------------------ eviction
\* The keys of sequence h other than k, in order.
Without(h, k) == SelectSeq(h, LAMBDA x : x # k)

\* The keys an LRU of capacity cap holds after the touches of h, the one
\* touched last first, and those it has evicted (each touch of a key not
\* held that finds cap keys held evicts the one touched least recently).
RECURSIVE LRUAfter(_, _)
LRUAfter(h, cap) ==
  IF h = <<>> THEN [held |-> <<>>, evicted |-> {}]
  ELSE LET before == LRUAfter(SubSeq(h, 1, Len(h) - 1), cap)
           k == h[Len(h)]
           all == <<k>> \o Without(before.held, k)
       IN IF Len(all) > cap
            THEN [held |-> SubSeq(all, 1, cap),
                  evicted |-> before.evicted \cup {all[Len(all)]}]
            ELSE [held |-> all, evicted |-> before.evicted]

\* The keys of the list of LRU l from node on, following next.
RECURSIVE ListFrom(_, _)
ListFrom(l, node) ==
  IF node = NULL THEN <<>> ELSE <<node>> \o ListFrom(l, l.next[node])

\* C18: after any touches the LRU holds the keys touched most recently, as
\* many as its capacity, in that order: a touch that inserts a key into a
\* full LRU evicts the key touched least recently and no other.  The
\* durable records of the evicted keys, and of no other key, are deleted or
\* about to be.
C18_EvictsLeastRecentlyTouched ==
  LET ref == LRUAfter(touched, lruCache.maxSize)
  IN /\ ListFrom(lruCache, lruCache.head) = ref.held
     /\ lruCache.cache = {ref.held[i] : i \in 1..Len(ref.held)}
     /\ Len(ref.held) <= lruCache.maxSize
     /\ lruCache.tail = IF ref.held = <<>> THEN NULL ELSE ref.held[Len(ref.held)]
     /\ removals \subseteq ref.evicted
     /\ hasIndexedDB
          => /\ DOMAIN store \subseteq LRUKeys
             /\ DOMAIN store \ removals = LRUKeys \ ref.evicted
             /\ \A k \in DOMAIN store : store[k] = LeftOver(k)

\* C18 happens: after touches of 5BAA6, 7C4A8, 5BAA6 and B1B37 the LRU
\* holds B1B37 and 5BAA6, and of the records only that of 7C4A8 is gone.
C18_Witness ==
  /\ touched = <<DigestPrefix("password"), <<"7", "C", "4", "A", "8">>,
                 DigestPrefix("password"), <<"B", "1", "B", "3", "7">>>>
  /\ ListFrom(lruCache, lruCache.head)
       = <<<<"B", "1", "B", "3", "7">>, DigestPrefix("password")>>
  /\ DOMAIN store = LRUKeys \ {<<"7", "C", "4", "A", "8">>}

\* ------------------------------------------------------------ clearCache
\* C19: once clearCache() has completed, and until the next check begins,
\* the LRU tracks no key and the store holds no record, with or without a
\* durable store.
C19_ClearEmptiesBoth ==
  clearsInRow > 0 => lruCache.cache = {} /\ store = EmptyMap

\* C20: after two clearCache() calls in a row the LRU and the store are in
\* the empty state, as they are to be after one.
C20_ClearTwiceIsClearOnce ==
  clearsInRow >= 2
    => lruCache = NewLRUCache(MAX_CACHE_SIZE) /\ store = EmptyMap

\* ------------------------------------------------------------ capacity
\* C21: the store never holds more than MAX_CACHE_SIZE records, those that
\* a removeFromDB() already under way is to delete not counted.
C21_StoreWithinCapacity ==
  Cardinality(DOMAIN store \ removals) <= MAX_CACHE_SIZE

C23_ReadErrorDegradesToMiss ==
  \A c \in Calls :
    Returned(c) /\ call[c].lookup = "error"
      => IF call[c].allowNetwork /\ hasFetch
           THEN call[c].requests > 0
           ELSE call[c].result = Unknown

\* C24: in a host whose durable store does not open, only the first check
\* tries to initialise it: no later check is found in initDB().
C24_UnavailabilityIsRemembered ==
  \A c \in Calls :
    ~hasIndexedDB /\ call[c].id > 1 => call[c].pc # "initDB"

\* ------------------------------------------------------------ the list
\* The keys of the list of LRU l from node back, following prev.
RECURSIVE ListBack(_, _)
ListBack(l, node) ==
  IF node = NULL THEN <<>> ELSE <<node>> \o ListBack(l, l.prev[node])

Reverse(seq) == [i \in 1..Len(seq) |-> seq[Len(seq) + 1 - i]]

\* C25: after any touches the keys of the Map are those of the nodes
\* reached from head by next, which from tail by prev are reached in the
\* reverse order; each key is in the list once, every node carries both
\* links, and the keys are no more than the capacity.
C25_MapAndListAgree ==
  LET fwd == ListFrom(lruCache, lruCache.head)
      bwd == ListBack(lruCache, lruCache.tail)
  IN /\ lruCache.cache = {fwd[i] : i \in 1..Len(fwd)}
     /\ Len(fwd) = Cardinality(lruCache.cache)
     /\ bwd = Reverse(fwd)
     /\ DOMAIN lruCache.next = lruCache.cache
     /\ DOMAIN lruCache.prev = lruCache.cache
     /\ Cardinality(lruCache.cache) <= lruCache.maxSize

\* C25 happens: an LRU of two keys is full and its tail has just been moved
\* to the front.
C25_Witness ==
  /\ lruCache.maxSize = 2
  /\ Len(touched) = 3 /\ touched[1] = touched[3] /\ touched[1] # touched[2]
  /\ ListFrom(lruCache, lruCache.head) = <<touched[3], touched[2]>>
  /\ ListBack(lruCache, lruCache.tail) = <<touched[2], touched[3]>>

\* A step that touches key k in the LRU.
TouchStep(k) == touched' = Append(touched, k)

\* Two node references are the same: both null, or the same key.
SameNode(a, b) ==
  IF a = NULL THEN b = NULL ELSE IF b = NULL THEN FALSE ELSE a = b

\* Two maps of links are the same: the same nodes, each with the same link.
SameLinks(f, g) ==
  /\ DOMAIN f = DOMAIN g
  /\ \A k \in DOMAIN f : SameNode(f[k], g[k])

\* Two LRUs are the same: the same keys, ends, links and capacity.
SameLRU(a, b) ==
  /\ a.cache = b.cache /\ a.maxSize = b.maxSize
  /\ SameNode(a.head, b.head) /\ SameNode(a.tail, b.tail)
  /\ SameLinks(a.prev, b.prev) /\ SameLinks(a.next, b.next)

\* C28: a touch of the key that is already the most recently used leaves
\* the LRU as it is (its keys, their order, its ends), evicts nothing, and
\* neither deletes a durable record nor asks for a delete.
C28_TouchOfMRUIsNoOp ==
  [][\A k \in LRUKeys :
       TouchStep(k) /\ SameNode(lruCache.head, k)
         => /\ SameLRU(lruCache', lruCache)
            /\ store' = store
            /\ removals' = removals]_vars

\* C28 happens: with the LRU full, the key touched last has been touched
\* twice running and is still the head, with the other key behind it.
C28_Witness ==
  /\ Len(touched) >= 3
  /\ touched[Len(touched)] = touched[Len(touched) - 1]
  /\ touched[Len(touched) - 2] # touched[Len(touched)]
  /\ Cardinality(lruCache.cache) = 2
  /\ ListFrom(lruCache, lruCache.head)
       = <<touched[Len(touched)], touched[Len(touched) - 2]>>

\* C29: an LRU of capacity 1 holds, once touched, the key touched last and
\* no other: that key is both head and tail, and every key touched before and
\* different from it has been evicted.  An LRU of capacity 0 evicts every key
\* as it is inserted: its list is empty and head and tail are null.
C29_SmallCapacities ==
  LET last == touched[Len(touched)]
      earlier == {touched[i] : i \in 1..Len(touched)} \ {last}
  IN /\ lruCache.maxSize = 1 /\ touched # <<>>
          => /\ SameNode(lruCache.head, last) /\ SameNode(lruCache.tail, last)
             /\ lruCache.cache = {last}
             /\ SameLinks(lruCache.prev, [k \in {last} |-> NULL])
             /\ SameLinks(lruCache.next, [k \in {last} |-> NULL])
             /\ hasIndexedDB => (DOMAIN store \ removals) \cap earlier = {}
     /\ lruCache.maxSize = 0
          => /\ lruCache.head = NULL /\ lruCache.tail = NULL
             /\ lruCache.cache = {}
             /\ lruCache.prev = EmptyMap /\ lruCache.next = EmptyMap
             /\ hasIndexedDB
                  => (DOMAIN store \ removals) \cap {touched[i] : i \in 1..Len(touched)} = {}

\* C29 happens with capacity 1: a second, distinct key has been inserted and
\* the first is gone.
C29_Witness ==
  /\ lruCache.maxSize = 1
  /\ Len(touched) = 2 /\ touched[1] # touched[2]
  /\ lruCache.cache = {touched[2]}
  /\ hasIndexedDB /\ touched[1] \notin DOMAIN store

\* ------------------------------------------------------------ concurrent checks
\* Calls c and d were checks of one password that both found no record of
\* its prefix, and both have returned.
BothMissed(c, d) ==
  /\ c # d
  /\ Returned(c) /\ Returned(d)
  /\ call[c].password = call[d].password
  /\ call[c].lookup = "miss" /\ call[d].lookup = "miss"

BeginsLookup(c) ==
  call[c].pc # "getCacheEntry" /\ call'[c].pc = "getCacheEntry"

\* C27: the step that takes a check to its durable lookup touches the prefix
\* of the check, once, and leaves it the most recently used key of the LRU;
\* no other step touches a key; and no check returns, whatever its outcome,
\* without having come to its lookup.
C27_TouchedOnceBeforeLookup ==
  [][/\ \A c \in Calls :
          BeginsLookup(c)
            => /\ touched' = Append(touched, DigestPrefix(call'[c].password))
               /\ SameNode(lruCache'.head, DigestPrefix(call'[c].password))
               /\ call'[c].lookup = NULL
     /\ touched' # touched
          => \/ \E c \in Calls : BeginsLookup(c)
             \/ touched' = <<>> /\ lruCache'.cache = {}
     /\ \A c \in Calls :
          call[c].pc # "done" /\ call'[c].pc = "done"
            => /\ call[c].pc \notin {"idle", "initDB"}
               /\ call'[c].lookup # NULL]_vars

\* C27 happens: two checks have returned, one offline after a miss and one
\* with a fetched verdict, and the LRU was touched once for each, the prefix
\* of the later check being the head.
C27_Witness ==
  /\ started = 2 /\ cleared = 0 /\ Len(touched) = 2
  /\ \A c \in Calls : Returned(c)
  /\ \E c, d \in Calls :
       /\ call[c].id = 1 /\ call[d].id = 2
       /\ call[c].result = Unknown /\ call[c].requests = 0
       /\ Fetched(d)
       /\ touched = <<DigestPrefix(call[c].password), DigestPrefix(call[d].password)>>
       /\ DigestPrefix(call[d].password) \in lruCache.cache
       /\ SameNode(lruCache.head, DigestPrefix(call[d].password))

\* ------------------------------------------------------------ empty bucket
\* No line of text holds a suffix: whatever is not white space comes after a
\* colon of its line.
NoParsableLine(text) ==
  \A i \in 1..Len(text) :
    ~IsSpace(text[i])
      => \E j \in 1..i : text[j] = ":" /\ \A k \in j..i : text[k] # "\n"

\* Call c returned after a fetch that succeeded with a body of no parsable
\* line.
FetchedNoLine(c) ==
  /\ Returned(c) /\ Fetched(c)
  /\ NoParsableLine(RemoteBody(DigestPrefix(call[c].password)))

NotBreachedFromNetwork == [checked |-> TRUE, breached |-> JSBool(FALSE), cached |-> FALSE]

\* The record of the prefix of call c with an empty bucket.
EmptyBucketOf(c) ==
  LET k == DigestPrefix(call[c].password)
  IN (k :> [prefix |-> k, hashes |-> <<>>, timestamp |-> call[c].timestamp])

\* C30 (as amended): a check whose fetch succeeds with a body of no parsable
\* line returns {checked: true, breached: false, cached: false}, as for an
\* empty bucket; when the store is available the record of the prefix with
\* an empty bucket is in it when the check returns, and when it is not
\* nothing is written.
C30_EmptyBodyIsEmptyBucket ==
  \A c \in Calls :
    FetchedNoLine(c)
      => /\ call[c].result = NotBreachedFromNetwork
         /\ call[c].hashes = <<>>
         /\ call[c].written = IF hasIndexedDB THEN EmptyBucketOf(c) ELSE EmptyMap

\* C30 (as written): the empty bucket is in the store when the check
\* returns.
C30_Original ==
  \A c \in Calls :
    FetchedNoLine(c)
      => /\ call[c].result = NotBreachedFromNetwork
         /\ call[c].written = EmptyBucketOf(c)

\* C30 happens: a check of "Xk9#mQ2!vL7", whose bucket is served as a blank
\* line, returned not breached and left a record with no suffix.
C30_Witness ==
  \E c \in Calls :
    /\ FetchedNoLine(c)
    /\ call[c].password = "Xk9#mQ2!vL7"
    /\ RemoteBody(DigestPrefix(call[c].password)) # <<>>
    /\ call[c].result = NotBreachedFromNetwork
    /\ hasIndexedDB
    /\ call[c].written = EmptyBucketOf(c)

\* ------------------------------------------------------------ round trip
\* The step is the write-back of call c: setCacheEntry settles.
WritesBack(c) == call[c].pc = "setCacheEntry" /\ call'[c].pc = "done"

\* The step is the durable lookup of call c settling without a read error.
ReadsBack(c) ==
  /\ call[c].pc = "getCacheEntry" /\ call'[c].pc # "getCacheEntry"
  /\ call'[c].lookup # "error"

\* C31: the write-back of a check leaves in the store, under the prefix, the
\* record {prefix, bucket, time of the fetch}, in place of the record of the
\* prefix there was, if any, and leaves the records of other prefixes alone;
\* a lookup that finds a record of its prefix no older than the TTL is a hit
\* that returns the bucket of that record, and its verdict is from it.
C31_RoundTrip ==
  [][\A c \in Calls :
       LET k == DigestPrefix(call[c].password)
       IN /\ WritesBack(c) /\ hasIndexedDB
               => /\ DOMAIN store' = DOMAIN store \cup {k}
                  /\ store'[k] = [prefix |-> k, hashes |-> call[c].hashes,
                                  timestamp |-> call[c].timestamp]
                  /\ \A j \in DOMAIN store \ {k} : store'[j] = store[j]
          /\ ReadsBack(c) /\ k \in DOMAIN store
                          /\ now - store[k].timestamp <= CACHE_TTL_MS
               => /\ call'[c].lookup = "hit"
                  /\ call'[c].seen[k].hashes = store[k].hashes
                  /\ call'[c].result.cached
                  /\ call'[c].result.breached
                       = JSBool(InBucket(DigestSuffix(call[c].password),
                                         store[k].hashes))]_vars

\* C31 happens: a check was a hit on the record another check of the prefix
\* had written, bucket for bucket.
C31_Witness ==
  \E c, d \in Calls :
    /\ c # d /\ Returned(c) /\ Returned(d)
    /\ Fetched(c) /\ call[c].hashes # <<>>
    /\ call[d].lookup = "hit"
    /\ call[d].seen = EntryOf(c)
    /\ store = EntryOf(c)

\* ------------------------------------------------------------ failed removal
\* C32: every removal of an evicted record that deleted nothing was reported
\* with console.error; and it is not fatal: the checks return the verdict of
\* the bucket they fetched or found, and the LRU holds the key touched last
\* and not the evicted ones.
C32_FailedRemovalIsReported ==
  /\ removalLog.failed \subseteq removalLog.reported
  /\ \A c \in Calls :
       Returned(c)
         => /\ call[c].result.checked
            /\ call[c].result.breached
                 = JSBool(InBucket(DigestSuffix(call[c].password),
                                   ParseHashes(RemoteBody(DigestPrefix(call[c].password)))))
  /\ touched # <<>> => lruCache.cache = {touched[Len(touched)]}

\* ------------------------------------------------------------ reach of the LRU
\* C33: whenever no call is in progress, every prefix with a record in the
\* store, other than those whose removal is pending, is a key of the LRU.
C33_StoredPrefixIsTracked ==
  NoneInFlight => (DOMAIN store \ removals) \subseteq lruCache.cache

\* C34: when the one check begun so far had its fetch in flight as
\* clearCache() was called, and both have completed, the store holds no
\* record.
C34_NoWriteBackAfterClear ==
  started = 1 /\ cleared = 1 /\ NoneInFlight => store = EmptyMap

\* ------------------------------------------------------------ failed checks
\* Of the two checks made so far, the first, c, fetched its bucket and wrote
\* it back, and the second, d, returned checked = false; the cache was not
\* cleared.
FailedAfterFetched(c, d) ==
  /\ started = 2 /\ cleared = 0 /\ hasIndexedDB
  /\ call[c].id = 1 /\ call[d].id = 2
  /\ Returned(c) /\ Returned(d)
  /\ Fetched(c)
  /\ ~call[d].result.checked

\* C35 (as amended): a check that returns checked = false writes no record;
\* the record of its own prefix it deletes only when that had expired; and
\* the record of another prefix is deleted, or about to be, only when the
\* touch of the check evicted that prefix from the LRU.
C35_FailedCheckOnlyPurgesOrEvicts ==
  \A c, d \in Calls :
    FailedAfterFetched(c, d)
      => LET kc == DigestPrefix(call[c].password)
             kd == DigestPrefix(call[d].password)
         IN /\ DOMAIN store \subseteq {kc}
            /\ IF kd = kc
                 THEN IF call[d].lookup = "expired"
                        THEN /\ call[d].lookedAt - call[c].timestamp > CACHE_TTL_MS
                             /\ store = EmptyMap
                        ELSE store = EntryOf(c)
                 ELSE IF kc \in lruCache.cache \/ kc \in removals
                        THEN store = EntryOf(c)
                        ELSE store = EmptyMap

\* C35 (as written): a check that returns checked = false leaves every
\* record that has not expired in the store, and writes none.
C35_Original ==
  \A c, d \in Calls :
    FailedAfterFetched(c, d)
      => /\ DOMAIN store \subseteq {DigestPrefix(call[c].password)}
         /\ now - call[c].timestamp <= CACHE_TTL_MS => store = EntryOf(c)

\* C35 happens: after a check that cached its bucket, an offline check of
\* another prefix returned checked = false; its touch evicted the prefix of
\* the first, whose record, not expired, is gone from the store.
C35_Witness ==
  \E c, d \in Calls :
    /\ FailedAfterFetched(c, d)
    /\ ~call[d].allowNetwork
    /\ DigestPrefix(call[d].password) # DigestPrefix(call[c].password)
    /\ now - call[c].timestamp <= CACHE_TTL_MS
    /\ lruCache.cache = {DigestPrefix(call[d].password)}
    /\ removals = {}
    /\ store = EmptyMap

\* ------------------------------------------------------------ keyed by prefix
\* Call c is a check of another password than that of call d, of the same
\* prefix, made after d returned from a successful fetch, within
\* CACHE_TTL_MS of it.
LaterCheckOfPrefix(c, d) ==
  /\ Returned(c) /\ Returned(d) /\ Fetched(d)
  /\ call[c].id > call[d].id
  /\ call[c].password # call[d].password
  /\ DigestPrefix(call[c].password) = DigestPrefix(call[d].password)
  /\ call[c].lookedAt - call[d].timestamp <= CACHE_TTL_MS

C37_NoBackoffAfterLastAttempt ==
  \A c \in Calls :
    Observed(c) /\ Returned(c) /\ ~Fetched(c)
                /\ Len(attempts.outcomes) = MAX_RETRIES
      => Len(attempts.delays) = MAX_RETRIES - 1

\* ------------------------------------------------------------ the hook
\* C38: when the awaited check of an earlier check() resolves while a later
\* check() is pending, neither the result nor loading changes.
C38_StaleCheckIsIgnored ==
  [][\A x \in hook.pending :
       /\ x \notin hook'.pending
       /\ \E y \in hook.pending : y.id > x.id
       => /\ hook'.result = hook.result
          /\ hook'.loading = hook.loading]_vars

====
